---- MODULE Spec2Model ----
(***************************************************************************)
(* Model of status.py: the validity filter (get_valid_cif_files), the      *)
(* tree walk and aggregation (analyze_calculations, get_job_status), the   *)
(* report (print_summary) and the top-level script.                        *)
(*                                                                         *)
(* A string is a sequence of characters, a character is a one-character    *)
(* string; the two characters outside ASCII that the model uses are        *)
(* written by their code point ("U+0660").  A directory of the scanned     *)
(* tree is a record [rel |-> its path below the scan root as a sequence of *)
(* names, files |-> the names of its non-directory entries].  Directories  *)
(* with an empty listing change nothing in either walk and are left out of *)
(* the tree unless listed.                                                 *)
(***************************************************************************)
EXTENDS Integers, Sequences, FiniteSets, TLC

VARIABLES pc, directory, root_status, tree, valid_cif_files, calculations,
          walked, iterations, error, stdout_lines

vars == <<pc, directory, root_status, tree, valid_cif_files, calculations,
          walked, iterations, error, stdout_lines>>

(***************************************************************************)
(* Bound of the model.                                                     *)
(***************************************************************************)
MaxDirs == 2

(***************************************************************************)
(* Characters and strings.                                                 *)
(***************************************************************************)
SEP == "/"

AsciiDigits == <<"0", "1", "2", "3", "4", "5", "6", "7", "8", "9">>

IsDigit(c) == c \in {AsciiDigits[i] : i \in 1..10} \cup {"U+0660", "U+0663"}

DigitVal(c) ==
  CASE c = "U+0660" -> 0
    [] c = "U+0663" -> 3
    [] OTHER -> (CHOOSE i \in 1..10 : AsciiDigits[i] = c) - 1

IsSpace(c) == c = " "

StartsWith(s, pre) ==
  /\ Len(s) >= Len(pre)
  /\ SubSeq(s, 1, Len(pre)) = pre

EndsWith(s, suf) ==
  /\ Len(s) >= Len(suf)
  /\ SubSeq(s, Len(s) - Len(suf) + 1, Len(s)) = suf

Contains(s, sub) ==
  \E i \in 1..(Len(s) + 1) : StartsWith(SubSeq(s, i, Len(s)), sub)

\* str.split(sep) for a one-character separator
RECURSIVE Split(_, _)
Split(s, sep) ==
  IF \A i \in 1..Len(s) : s[i] # sep
  THEN <<s>>
  ELSE LET i == CHOOSE j \in 1..Len(s) :
                  /\ s[j] = sep
                  /\ \A k \in 1..(j - 1) : s[k] # sep
       IN  <<SubSeq(s, 1, i - 1)>> \o Split(SubSeq(s, i + 1, Len(s)), sep)

\* posixpath.join(a, b) for a name b that does not start with the separator
Join(a, b) ==
  IF a = <<>> \/ EndsWith(a, <<SEP>>) THEN a \o b ELSE a \o <<SEP>> \o b

\* posixpath.splitext(p)[0] for a name without separator
SplitExt(p) ==
  IF \A i \in 1..Len(p) : p[i] # "."
  THEN p
  ELSE LET dotIndex == CHOOSE j \in 1..Len(p) :
                         /\ p[j] = "."
                         /\ \A k \in (j + 1)..Len(p) : p[k] # "."
       IN  IF \E k \in 1..(dotIndex - 1) : p[k] # "."
           THEN SubSeq(p, 1, dotIndex - 1)
           ELSE p

\* str.strip() over the whitespace of the model's alphabet
RECURSIVE Strip(_)
Strip(s) ==
  IF s = <<>> THEN s
  ELSE IF IsSpace(s[1]) THEN Strip(Tail(s))
  ELSE IF IsSpace(s[Len(s)]) THEN Strip(SubSeq(s, 1, Len(s) - 1))
  ELSE s

RECURSIVE DigitsValue(_, _)
DigitsValue(s, acc) ==
  IF s = <<>> THEN acc
  ELSE IF s[1] = "_" THEN DigitsValue(Tail(s), acc)
  ELSE DigitsValue(Tail(s), 10 * acc + DigitVal(s[1]))

\* int(s): ok = FALSE stands for ValueError
ParseInt(s) ==
  LET t    == Strip(s)
      neg  == t # <<>> /\ t[1] = "-"
      body == IF t # <<>> /\ t[1] \in {"+", "-"} THEN Tail(t) ELSE t
      wellFormed ==
        /\ body # <<>>
        /\ \A i \in 1..Len(body) : IsDigit(body[i]) \/ body[i] = "_"
        /\ IsDigit(body[1])
        /\ IsDigit(body[Len(body)])
        /\ \A i \in 1..(Len(body) - 1) : ~(body[i] = "_" /\ body[i + 1] = "_")
  IN  IF wellFormed
      THEN [ok |-> TRUE,
            val |-> IF neg THEN 0 - DigitsValue(body, 0) ELSE DigitsValue(body, 0)]
      ELSE [ok |-> FALSE, val |-> 0]

\* f"{iteration:02d}" for 0 <= iteration <= 99
Format02d(iteration) ==
  <<AsciiDigits[(iteration \div 10) + 1], AsciiDigits[(iteration % 10) + 1]>>

(***************************************************************************)
(* Names of the scanned trees.                                             *)
(***************************************************************************)
POSCAR == <<"P", "O", "S", "C", "A", "R">>

CifExt == <<".", "c", "i", "f">>

DontUse == <<"_", "d", "o", "n", "t", "_", "u", "s", "e">>

AimdTag == <<"_", "a", "i", "m", "d", "_">>

ReportSuffix == <<"R", "E", "P", "O", "R", "T">>

Npt == <<"n", "p", "t">>

Nvt == <<"n", "v", "t">>

Nve == <<"n", "v", "e">>

\* the file NN_aimd_<suffix> for the two characters nn
AimdFile(nn, suffix) == nn \o AimdTag \o suffix

\* A.cif and B_dont_use.cif: A is valid, B is excluded
RootFilesPlain == {<<"A">> \o CifExt, <<"B">> \o DontUse \o CifExt}

\* A.cif, B.cif, r.cif, A.b.cif and the hidden file .cif
RootFilesMany ==
  {<<"A">> \o CifExt, <<"B">> \o CifExt, <<"r">> \o CifExt,
   <<"A", ".", "b">> \o CifExt, CifExt}

\* a POSCAR in the root itself, A.cif, _dont_use_B.cif, Acif, A.cif.bak
RootFilesOdd ==
  {POSCAR, <<"A">> \o CifExt, DontUse \o <<"_", "B">> \o CifExt,
   <<"A", "c", "i", "f">>, <<"A">> \o CifExt \o <<".", "b", "a", "k">>}

RootFileSets == {RootFilesPlain, RootFilesMany, RootFilesOdd}

\* 00_aimd_l, 00_aimd_REPORT, 01_aimd_l: iteration 0 completed, 1 not started
FilesScenario ==
  {POSCAR, AimdFile(<<"0", "0">>, <<"l">>), AimdFile(<<"0", "0">>, ReportSuffix),
   AimdFile(<<"0", "1">>, <<"l">>)}

\* 00_aimd_l: iteration 0 not started
FilesOne == {POSCAR, AimdFile(<<"0", "0">>, <<"l">>)}

FilesNone == {POSCAR}

\* iteration files without POSCAR
FilesNoPoscar ==
  {AimdFile(<<"0", "0">>, <<"l">>), AimdFile(<<"0", "0">>, ReportSuffix)}

\* 10_aimd_l, 02_aimd_REPORT, 02_aimd_l, a REPORT named with the digits
\* U+0660 U+0663, and the names 0_aimd_l, x02_aimd_l, 04_aimd, which do not
\* match: iterations 2 (completed), 3 and 10 (not started)
FilesOdd ==
  {POSCAR, AimdFile(<<"1", "0">>, <<"l">>), AimdFile(<<"0", "2">>, ReportSuffix),
   AimdFile(<<"0", "2">>, <<"l">>), AimdFile(<<"U+0660", "U+0663">>, ReportSuffix),
   AimdFile(<<"0">>, <<"l">>), AimdFile(<<"x", "0", "2">>, <<"l">>),
   <<"0", "4", "_", "a", "i", "m", "d">>}

Dir(rel, files) == [rel |-> rel, files |-> files]

\* the directories below the root a tree is drawn from
SubDirs ==
  { Dir(<<<<"A">>, <<"P">>, Npt, <<"s">>, <<"3">>>>, FilesScenario),
    Dir(<<<<"A">>, <<"P">>, Npt, <<"s">>, <<"3">>>>, FilesNoPoscar),
    Dir(<<<<"A">>, <<"P">>, Npt, <<"t">>, <<"3">>>>, FilesOne),
    Dir(<<<<"A">>, <<"P">>, Npt, <<"s">>, <<"0", "3">>>>, FilesOdd),
    Dir(<<<<"A">>, <<"P">>, Nvt, <<"s">>, <<"3">>>>, FilesOne),
    Dir(<<<<"A">>, <<"P">>, Nve, <<"s">>, <<"3">>>>, FilesNone),
    Dir(<<<<"A">>, <<"P">>, Nve, <<"s">>, <<"3">>>>, FilesOne),
    Dir(<<<<"A">>, <<"P">>, Npt, <<"s">>, <<"x">>>>, FilesOne),
    Dir(<<<<"B">>, <<"P">>, Npt, <<"s">>, <<"3">>>>, FilesScenario),
    Dir(<<<<"B">>, <<"P">>, Npt, <<"s">>, <<"x">>>>, FilesOne),
    Dir(<<<<"P">>, Npt, <<"s">>, <<"3">>>>, FilesOne),
    Dir(<<Npt, <<"s">>, <<"3">>>>, FilesScenario),
    Dir(<<<<"s">>, <<"x">>>>, FilesOne),
    Dir(<<<<"c">>>>, {<<"A">> \o CifExt, <<"C">> \o DontUse \o CifExt}),
    Dir(<<<<"c">>, <<"A">>, <<"P">>, Npt, <<"s">>, <<"3">>>>, FilesOne) }

\* the directory arguments: /r, r, r/ and /h/A/P
Directories ==
  { <<SEP, "r">>, <<"r">>, <<"r", SEP>>, <<SEP, "h", SEP, "A", SEP, "P">> }

RootStatuses == {"ok", "missing", "unreadable"}

\* the trees: the root directory and at most MaxDirs directories below it,
\* no two at the same path
Trees ==
  { {Dir(<<>>, rf)} \cup sub :
      rf \in RootFileSets,
      sub \in { s \in SUBSET SubDirs :
                  /\ Cardinality(s) <= MaxDirs
                  /\ \A d1, d2 \in s : d1.rel = d2.rel => d1 = d2 } }

(***************************************************************************)
(* os.walk(top) with its default onerror: a top that is missing or cannot  *)
(* be listed yields nothing and raises nothing.                            *)
(***************************************************************************)
os_walk(status, t) == IF status = "ok" THEN t ELSE {}

\* the path os.walk hands to the loop body for the directory at rel
RECURSIVE WalkPath(_, _)
WalkPath(top, rel) ==
  IF rel = <<>> THEN top
  ELSE Join(WalkPath(top, SubSeq(rel, 1, Len(rel) - 1)), rel[Len(rel)])

RECURSIVE CommonPrefixLen(_, _)
CommonPrefixLen(a, b) ==
  IF a = <<>> \/ b = <<>> \/ a[1] # b[1] THEN 0
  ELSE 1 + CommonPrefixLen(Tail(a), Tail(b))

Range(seq) == {seq[i] : i \in 1..Len(seq)}

IsAbove(a, d) ==
  Len(a.rel) < Len(d.rel) /\ CommonPrefixLen(a.rel, d.rel) = Len(a.rel)

\* d may be the next directory of a top-down walk of listing that has
\* yielded done: every directory above d came first, and no subtree is
\* returned to once left
TopDownNext(listing, done, d) ==
  /\ \A a \in listing : IsAbove(a, d) => a \in Range(done)
  /\ \A i, j \in 1..Len(done) :
       i < j => CommonPrefixLen(done[i].rel, d.rel) <= CommonPrefixLen(done[j].rel, d.rel)

(***************************************************************************)
(* get_valid_cif_files                                                     *)
(***************************************************************************)
\* a variant without the exclusion marker
IsCif(file) == EndsWith(file, CifExt)

IsValidCif(file) == EndsWith(file, CifExt) /\ ~Contains(file, DontUse)

get_valid_cif_files(listing) ==
  { SplitExt(file) : file \in { f \in UNION {d.files : d \in listing} : IsValidCif(f) } }

(***************************************************************************)
(* get_job_status: the REPORT file is looked up among the files of the     *)
(* directory being visited.                                                *)
(***************************************************************************)
ReportFile(iteration) == Format02d(iteration) \o AimdTag \o ReportSuffix

\* a variant that looks for the REPORT file under the unpadded number
get_job_status_unpadded(files, iteration) ==
  LET nn == IF iteration < 10 THEN <<AsciiDigits[iteration + 1]>>
            ELSE Format02d(iteration)
  IN  IF nn \o AimdTag \o ReportSuffix \in files THEN "completed" ELSE "not_started"

get_job_status(files, iteration) ==
  IF ReportFile(iteration) \in files THEN "completed" ELSE "not_started"

(***************************************************************************)
(* analyze_calculations.  The nested dictionary                            *)
(* functional -> base_name -> temperature -> ensemble -> status -> count   *)
(* is a function from <<functional, base_name, temperature>> to            *)
(* [ensemble -> [status -> count]]: the three outer levels are only ever   *)
(* created together.                                                       *)
(***************************************************************************)
\* a variant that splits the path relative to the scan root
PathPartsRelative(top, rel) == rel

PathParts(top, rel) == Split(WalkPath(top, rel), SEP)

\* a variant that asks for the five classification segments only
DeepEnoughFive(path_parts) == Len(path_parts) >= 5

DeepEnough(path_parts) == Len(path_parts) >= 6

\* a variant without the validity gate
NeverNotValid(base_name, valid) == FALSE

NotValid(base_name, valid) == base_name \notin valid

ZeroCounts == [completed |-> 0, not_started |-> 0]

FreshRecord == [e \in {Npt, Nvt} |-> ZeroCounts]

\* a variant that starts the records afresh at every directory
ResetRecords(calc, key) ==
  [k \in DOMAIN calc \cup {key} |-> IF k = key THEN FreshRecord ELSE calc[k]]

EnsureRecords(calc, key) ==
  IF key \in DOMAIN calc THEN calc ELSE calc @@ (key :> FreshRecord)

\* re.match(r'^\d{2}_aimd_', file)
MatchesIteration(file) ==
  /\ Len(file) >= 8
  /\ IsDigit(file[1])
  /\ IsDigit(file[2])
  /\ SubSeq(file, 3, 8) = AimdTag

IterationSet(files) ==
  { ParseInt(SubSeq(file, 1, 2)).val : file \in { f \in files : MatchesIteration(f) } }

RECURSIVE Sorted(_)
Sorted(S) ==
  IF S = {} THEN <<>>
  ELSE LET m == CHOOSE x \in S : \A y \in S : x <= y
       IN  <<m>> \o Sorted(S \ {m})

Iterations(files) == Sorted(IterationSet(files))

Increment(calc, key, ensemble, job_status) ==
  [calc EXCEPT ![key][ensemble][job_status] = @ + 1]

\* a variant that passes over an ensemble that is no key
RECURSIVE TallyKnownOnly(_, _, _, _, _)
TallyKnownOnly(calc, key, ensemble, files, iters) ==
  IF iters = <<>> \/ ensemble \notin DOMAIN calc[key]
  THEN [calc |-> calc, err |-> "none"]
  ELSE TallyKnownOnly(Increment(calc, key, ensemble, get_job_status(files, Head(iters))),
                      key, ensemble, files, Tail(iters))

\* the loop of lines 76-78; err = "KeyError" when the ensemble is no key
RECURSIVE Tally(_, _, _, _, _)
Tally(calc, key, ensemble, files, iters) ==
  IF iters = <<>> THEN [calc |-> calc, err |-> "none"]
  ELSE IF ensemble \notin DOMAIN calc[key] THEN [calc |-> calc, err |-> "KeyError"]
  ELSE Tally(Increment(calc, key, ensemble, get_job_status(files, Head(iters))),
             key, ensemble, files, Tail(iters))

\* the body of the walk loop for one directory: the table it leaves, the
\* exception it raises, and the iterations it went through
LoopBody(top, d, valid, calc) ==
  LET path_parts == PathParts(top, d.rel)
      n == Len(path_parts)
      skip == [calc |-> calc, err |-> "none", iterations |-> <<>>]
  IN  IF POSCAR \notin d.files THEN skip
      ELSE IF ~DeepEnough(path_parts) THEN skip
      ELSE LET base_name   == path_parts[n - 4]
               functional  == path_parts[n - 3]
               ensemble    == path_parts[n - 2]
               temperature == ParseInt(path_parts[n])
               key         == <<functional, base_name, temperature.val>>
           IN  IF ~temperature.ok
               THEN [calc |-> calc, err |-> "ValueError", iterations |-> <<>>]
               ELSE IF NotValid(base_name, valid) THEN skip
               ELSE LET iters == Iterations(d.files)
                        t == Tally(EnsureRecords(calc, key), key, ensemble,
                                   d.files, iters)
                    IN  [calc |-> t.calc, err |-> t.err, iterations |-> iters]

\* a variant in which a ValueError is caught and the walk goes on
UncaughtKeyErrorOnly(err) == err = "KeyError"

\* neither analyze_calculations nor the script catches anything
Uncaught(err) == err # "none"

(***************************************************************************)
(* print_summary: the number of lines written to standard output, four    *)
(* for the heading of a functional, one for each temperature of a          *)
(* structure and an empty one after each structure.                        *)
(***************************************************************************)
ReportLines(calc) ==
  4 * Cardinality({k[1] : k \in DOMAIN calc})
  + Cardinality({<<k[1], k[2]>> : k \in DOMAIN calc})
  + Cardinality(DOMAIN calc)

(***************************************************************************)
(* The script.                                                             *)
(***************************************************************************)
EmptyTable == [k \in {} |-> FreshRecord]

Init ==
  /\ pc = "filter"
  /\ directory \in Directories
  /\ root_status \in RootStatuses
  /\ tree \in IF root_status = "missing" THEN {{}} ELSE Trees
  /\ valid_cif_files = {}
  /\ calculations = EmptyTable
  /\ walked = <<>>
  /\ iterations = <<>>
  /\ error = "none"
  /\ stdout_lines = 0

\* line 114
GetValidCifFiles ==
  /\ pc = "filter"
  /\ valid_cif_files' = get_valid_cif_files(os_walk(root_status, tree))
  /\ pc' = "walk"
  /\ UNCHANGED <<directory, root_status, tree, calculations, walked, iterations,
                 error, stdout_lines>>

\* one pass of the loop of line 54
VisitDir ==
  /\ pc = "walk"
  /\ \E d \in os_walk(root_status, tree) \ Range(walked) :
       /\ TopDownNext(os_walk(root_status, tree), walked, d)
       /\ LET out == LoopBody(directory, d, valid_cif_files, calculations)
          IN  /\ calculations' = out.calc
              /\ iterations' = out.iterations
              /\ walked' = Append(walked, d)
              /\ error' = IF Uncaught(out.err) THEN out.err ELSE error
              /\ pc' = IF Uncaught(out.err) THEN "aborted" ELSE "walk"
  /\ UNCHANGED <<directory, root_status, tree, valid_cif_files, stdout_lines>>

\* line 80, when the walk has yielded every directory
ReturnCalculations ==
  /\ pc = "walk"
  /\ os_walk(root_status, tree) \subseteq Range(walked)
  /\ pc' = "print"
  /\ UNCHANGED <<directory, root_status, tree, valid_cif_files, calculations,
                 walked, iterations, error, stdout_lines>>

\* line 116
PrintSummary ==
  /\ pc = "print"
  /\ stdout_lines' = ReportLines(calculations)
  /\ pc' = "done"
  /\ UNCHANGED <<directory, root_status, tree, valid_cif_files, calculations,
                 walked, iterations, error>>

Next == GetValidCifFiles \/ VisitDir \/ ReturnCalculations \/ PrintSummary

Spec == Init /\ [][Next]_vars

(***************************************************************************)
(* Vocabulary of the properties.  A step visits the directory it appends   *)
(* to walked; Cur is the directory visited last.                           *)
(***************************************************************************)
Visits(d) == pc = "walk" /\ walked' = Append(walked, d)

Cur == walked[Len(walked)]

Ensembles == {Npt, Nvt}

Statuses == {"completed", "not_started"}

\* the count of a record, 0 for a record the table does not hold
Count(calc, key, e, st) ==
  IF key \in DOMAIN calc /\ e \in DOMAIN calc[key] THEN calc[key][e][st] ELSE 0

\* the segments of the full path of the directory at rel: those of the
\* directory argument (without the empty one a trailing separator leaves)
\* followed by the names below the root
FullSegments(top, rel) ==
  LET rs == Split(top, SEP)
  IN  IF rel = <<>> THEN rs
      ELSE IF rs[Len(rs)] = <<>> THEN SubSeq(rs, 1, Len(rs) - 1) \o rel
      ELSE rs \o rel

FromEnd(segs, i) == segs[Len(segs) - i + 1]

HasPoscar(d) == POSCAR \in d.files

Numeric(seg) == ParseInt(seg).ok

KeyOf(segs) == <<FromEnd(segs, 4), FromEnd(segs, 5), ParseInt(FromEnd(segs, 1)).val>>

\* the distinct iteration numbers of the files NN_aimd_* of a listing
DistinctNN(files) ==
  { n \in 0..99 : \E f \in files :
      /\ Len(f) >= 8
      /\ IsDigit(f[1]) /\ IsDigit(f[2])
      /\ SubSeq(f, 3, 8) = AimdTag
      /\ 10 * DigitVal(f[1]) + DigitVal(f[2]) = n }

WithStatus(files, st) ==
  { n \in DistinctNN(files) :
      (st = "completed") <=> (Format02d(n) \o AimdTag \o ReportSuffix \in files) }

\* a directory analyze_calculations counts
Counted(d) ==
  LET segs == FullSegments(directory, d.rel)
  IN  /\ HasPoscar(d)
      /\ Len(segs) >= 6
      /\ Numeric(FromEnd(segs, 1))
      /\ FromEnd(segs, 5) \in valid_cif_files
      /\ FromEnd(segs, 3) \in Ensembles

AllKeys ==
  { KeyOf(FullSegments(directory, d.rel)) :
      d \in { x \in tree : Len(FullSegments(directory, x.rel)) >= 6 } }

StrictlyAscending(seq) == \A i, j \in 1..Len(seq) : i < j => seq[i] < seq[j]

(***************************************************************************)
(* C1: a counted directory (POSCAR, at least 6 path segments, valid        *)
(* structure, numeric temperature, ensemble npt or nvt) adds to the record *)
(* of its (method, structure, temperature, ensemble) one increment per     *)
(* distinct iteration number among its files NN_aimd_*: to completed when  *)
(* NN_aimd_REPORT is a file of the directory, to not_started otherwise.    *)
(* No other record changes, and the iterations are gone through in         *)
(* ascending order, each once.                                             *)
(***************************************************************************)
C1_IterationTally ==
  [][\A d \in tree : (Visits(d) /\ Counted(d)) =>
       LET segs == FullSegments(directory, d.rel)
           key  == KeyOf(segs)
           e    == FromEnd(segs, 3)
       IN  /\ pc' = "walk"
           /\ DOMAIN calculations' = DOMAIN calculations \cup {key}
           /\ \A st \in Statuses :
                Count(calculations', key, e, st) =
                  Count(calculations, key, e, st) + Cardinality(WithStatus(d.files, st))
           /\ \A k \in AllKeys, x \in Ensembles, st \in Statuses :
                <<k, x>> # <<key, e>> =>
                  Count(calculations', k, x, st) = Count(calculations, k, x, st)
           /\ Range(iterations') = DistinctNN(d.files)
           /\ StrictlyAscending(iterations')
    ]_vars

\* a counted directory has just been visited: two of its files share an
\* iteration number, and it added to completed and to not_started
C1_Witness ==
  /\ pc = "walk"
  /\ Len(walked) > 0
  /\ Counted(Cur)
  /\ \E f, g \in Cur.files :
       /\ f # g
       /\ MatchesIteration(f) /\ MatchesIteration(g)
       /\ SubSeq(f, 1, 2) = SubSeq(g, 1, 2)
  /\ Len(iterations) >= 3
  /\ LET segs == FullSegments(directory, Cur.rel)
     IN  /\ Count(calculations, KeyOf(segs), FromEnd(segs, 3), "completed") >= 1
         /\ Count(calculations, KeyOf(segs), FromEnd(segs, 3), "not_started") >= 2

(***************************************************************************)
(* C2: every structure name that is a key of the table is in the valid set *)
(* at every point of the run, and a POSCAR directory whose 5th-from-last   *)
(* path segment is not in the valid set leaves the table as it was.        *)
(***************************************************************************)
C2_ValidityGate ==
  /\ [](\A k \in DOMAIN calculations : k[2] \in valid_cif_files)
  /\ [][\A d \in tree :
          (/\ Visits(d)
           /\ HasPoscar(d)
           /\ Len(FullSegments(directory, d.rel)) >= 5
           /\ FromEnd(FullSegments(directory, d.rel), 5) \notin valid_cif_files)
          => calculations' = calculations
       ]_vars

\* a directory of a structure outside the valid set, with iteration files,
\* has just been skipped while the table holds another structure
C2_Witness ==
  /\ pc = "walk"
  /\ Len(walked) > 0
  /\ HasPoscar(Cur)
  /\ Len(FullSegments(directory, Cur.rel)) >= 6
  /\ FromEnd(FullSegments(directory, Cur.rel), 5) \notin valid_cif_files
  /\ DistinctNN(Cur.files) # {}
  /\ DOMAIN calculations # {}

\* what a set of directories adds to the count of a status
RECURSIVE SumAdds(_, _)
SumAdds(dirs, st) ==
  IF dirs = {} THEN 0
  ELSE LET d == CHOOSE x \in dirs : TRUE
       IN  Cardinality(WithStatus(d.files, st)) + SumAdds(dirs \ {d}, st)

\* what the counted directories the walk lists add to a record
Expected(key, e, st) ==
  SumAdds({ d \in os_walk(root_status, tree) :
              /\ Counted(d)
              /\ KeyOf(FullSegments(directory, d.rel)) = key
              /\ FromEnd(FullSegments(directory, d.rel), 3) = e }, st)

(***************************************************************************)
(* C3: directories with the same (method, structure, temperature,          *)
(* ensemble) add into one record: the table returned holds, for every      *)
(* record, the sum of what each counted directory adds, whatever the order *)
(* of the walk, and no step resets or lowers a count the table holds.      *)
(***************************************************************************)
C3_Additivity ==
  /\ [](pc \in {"print", "done"} =>
          \A k \in AllKeys \cup DOMAIN calculations, e \in Ensembles, st \in Statuses :
            Count(calculations, k, e, st) = Expected(k, e, st))
  /\ [][\A k \in DOMAIN calculations :
          /\ k \in DOMAIN calculations'
          /\ \A e \in Ensembles, st \in Statuses :
               calculations'[k][e][st] >= calculations[k][e][st]
       ]_vars

\* the table has been returned and one record holds what two directories
\* added, each at least one iteration
C3_Witness ==
  /\ pc = "done"
  /\ \E d1, d2 \in Range(walked) :
       /\ d1 # d2
       /\ Counted(d1) /\ Counted(d2)
       /\ KeyOf(FullSegments(directory, d1.rel)) = KeyOf(FullSegments(directory, d2.rel))
       /\ FromEnd(FullSegments(directory, d1.rel), 3) = FromEnd(FullSegments(directory, d2.rel), 3)
       /\ d1.rel[Len(d1.rel)] # d2.rel[Len(d2.rel)]
       /\ DistinctNN(d1.files) # {} /\ DistinctNN(d2.files) # {}
       /\ LET segs == FullSegments(directory, d1.rel)
          IN  Count(calculations, KeyOf(segs), FromEnd(segs, 3), "not_started")
                + Count(calculations, KeyOf(segs), FromEnd(segs, 3), "completed")
              = Cardinality(DistinctNN(d1.files)) + Cardinality(DistinctNN(d2.files))

(***************************************************************************)
(* C4: a POSCAR directory with at least 6 path segments whose structure    *)
(* name is not in the valid set is skipped without error and the walk goes *)
(* on, whatever its other segments and its files are.                      *)
(***************************************************************************)
C4_InvalidStructureNeverAnError ==
  [][\A d \in tree :
       (/\ Visits(d)
        /\ HasPoscar(d)
        /\ Len(FullSegments(directory, d.rel)) >= 6
        /\ FromEnd(FullSegments(directory, d.rel), 5) \notin valid_cif_files)
       => /\ pc' = "walk"
          /\ error' = "none"
          /\ calculations' = calculations
    ]_vars

(***************************************************************************)
(* C5: a POSCAR directory with at least 6 path segments whose last segment *)
(* does not parse as an integer aborts the run with a ValueError when the  *)
(* walk reaches it; the run takes no further step, so no table is returned *)
(* and nothing is printed, and nothing is printed before the walk is over. *)
(***************************************************************************)
C5_MalformedTemperatureFatal ==
  /\ [][\A d \in tree :
          (/\ Visits(d)
           /\ HasPoscar(d)
           /\ Len(FullSegments(directory, d.rel)) >= 6
           /\ ~Numeric(FromEnd(FullSegments(directory, d.rel), 1)))
          => /\ pc' = "aborted"
             /\ error' = "ValueError"
             /\ calculations' = calculations
       ]_vars
  /\ [][pc # "aborted"]_vars
  /\ [](pc # "done" => stdout_lines = 0)

\* the run has aborted with a ValueError at a directory of a valid
\* structure, after counting another directory, and has printed nothing
C5_Witness ==
  /\ pc = "aborted"
  /\ error = "ValueError"
  /\ Len(walked) >= 3
  /\ HasPoscar(Cur)
  /\ FromEnd(FullSegments(directory, Cur.rel), 5) \in valid_cif_files
  /\ \E k \in DOMAIN calculations, e \in Ensembles : calculations[k][e]["not_started"] > 0
  /\ stdout_lines = 0

(***************************************************************************)
(* C6: with a root directory that is missing or cannot be read the run     *)
(* fails with an error; it does not finish normally.                       *)
(***************************************************************************)
C6_MissingRootFatal == pc \in {"walk", "print", "done"} => root_status = "ok"

(***************************************************************************)
(* C7: a POSCAR directory whose full path has fewer than 6 segments leaves *)
(* the table as it was and raises nothing, and the walk goes on; its last  *)
(* segment is not parsed.                                                  *)
(***************************************************************************)
C7_DepthSkip ==
  [][\A d \in tree :
       (/\ Visits(d)
        /\ HasPoscar(d)
        /\ Len(FullSegments(directory, d.rel)) < 6)
       => /\ pc' = "walk"
          /\ error' = "none"
          /\ calculations' = calculations
    ]_vars

\* a POSCAR directory with fewer than 6 segments and a last segment that
\* is no integer has just been passed, and the walk goes on
C7_Witness ==
  /\ pc = "walk"
  /\ Len(walked) > 0
  /\ HasPoscar(Cur)
  /\ Cur.rel # <<>>
  /\ Len(FullSegments(directory, Cur.rel)) < 6
  /\ ~Numeric(FromEnd(FullSegments(directory, Cur.rel), 1))

\* the names of the files the walk lists
ListedFiles == UNION {d.files : d \in os_walk(root_status, tree)}

\* a listed file X.cif without the marker
PlainCif(f) ==
  /\ Len(f) >= 4
  /\ SubSeq(f, Len(f) - 3, Len(f)) = CifExt
  /\ \A i \in 1..(Len(f) - 8) : SubSeq(f, i, i + 8) # DontUse

Stem(f) == SubSeq(f, 1, Len(f) - 4)

OnlyDots(s) == \A i \in 1..Len(s) : s[i] = "."

(***************************************************************************)
(* C8 as stated: the valid set is exactly the set of the X for which a     *)
(* file X.cif without the substring _dont_use is listed under the root.    *)
(***************************************************************************)
C8_FilterExclusion_Original ==
  pc # "filter" => valid_cif_files = { Stem(f) : f \in {g \in ListedFiles : PlainCif(g)} }

(***************************************************************************)
(* C8 amended: the valid set is exactly the set of the X for which a file  *)
(* X.cif without the substring _dont_use is listed under the root and X    *)
(* has a character other than '.', together with the full names of the     *)
(* listed files X.cif in which X is empty or only dots.  No name of the    *)
(* set contains _dont_use.                                                 *)
(***************************************************************************)
C8_FilterExclusion ==
  pc # "filter" =>
    /\ valid_cif_files =
         { Stem(f) : f \in {g \in ListedFiles : PlainCif(g) /\ ~OnlyDots(Stem(g))} }
         \cup {g \in ListedFiles : PlainCif(g) /\ OnlyDots(Stem(g))}
    /\ \A n \in valid_cif_files : ~Contains(n, DontUse)

\* the filter has run over a tree in which A.cif is in two directories, a
\* file carries the marker and the file .cif exists
C8_Witness ==
  /\ pc = "walk"
  /\ \E d1, d2 \in os_walk(root_status, tree) :
       /\ d1 # d2
       /\ \E f \in d1.files \cap d2.files : PlainCif(f) /\ Stem(f) \in valid_cif_files
  /\ \E f \in ListedFiles : EndsWith(f, CifExt) /\ Contains(f, DontUse)
  /\ CifExt \in ListedFiles

\* a directory that passes every test but the one on the ensemble
UnknownEnsemble(d) ==
  LET segs == FullSegments(directory, d.rel)
  IN  /\ HasPoscar(d)
      /\ Len(segs) >= 6
      /\ Numeric(FromEnd(segs, 1))
      /\ FromEnd(segs, 5) \in valid_cif_files
      /\ FromEnd(segs, 3) \notin Ensembles

(***************************************************************************)
(* C9 as stated: a directory with an unrecognized ensemble (6 segments or  *)
(* more, valid structure, numeric temperature) gets the records of npt and *)
(* nvt allocated and then aborts the run with a KeyError, always.          *)
(***************************************************************************)
C9_UnknownEnsemble_Original ==
  [][\A d \in tree : (Visits(d) /\ UnknownEnsemble(d)) =>
       /\ KeyOf(FullSegments(directory, d.rel)) \in DOMAIN calculations'
       /\ pc' = "aborted"
       /\ error' = "KeyError"
    ]_vars

(***************************************************************************)
(* C9 amended: such a directory makes sure the records of npt and nvt      *)
(* exist under (method, structure, temperature), at zero when they are     *)
(* new and untouched when they are not; then, if it has at least one file  *)
(* NN_aimd_*, the run aborts with a KeyError, and if it has none, nothing  *)
(* is raised and the walk goes on.  In neither case is a count changed.    *)
(***************************************************************************)
C9_UnknownEnsemble ==
  [][\A d \in tree : (Visits(d) /\ UnknownEnsemble(d)) =>
       LET key == KeyOf(FullSegments(directory, d.rel))
       IN  /\ DOMAIN calculations' = DOMAIN calculations \cup {key}
           /\ \A k \in DOMAIN calculations : calculations'[k] = calculations[k]
           /\ key \notin DOMAIN calculations =>
                /\ DOMAIN calculations'[key] = Ensembles
                /\ \A e \in Ensembles, st \in Statuses : calculations'[key][e][st] = 0
           /\ IF DistinctNN(d.files) # {}
              THEN pc' = "aborted" /\ error' = "KeyError"
              ELSE pc' = "walk" /\ error' = "none"
    ]_vars

\* the run has aborted with a KeyError at a directory with an unrecognized
\* ensemble, whose zero records are in the table
C9_Witness ==
  /\ pc = "aborted"
  /\ error = "KeyError"
  /\ UnknownEnsemble(Cur)
  /\ LET key == KeyOf(FullSegments(directory, Cur.rel))
     IN  /\ key \in DOMAIN calculations
         /\ \A e \in Ensembles, st \in Statuses : calculations[key][e][st] = 0

(***************************************************************************)
(* C10: what a POSCAR directory does is decided by the segments of its     *)
(* full path, the segments of the directory argument included: with fewer  *)
(* than 6 of them it is skipped; otherwise the last one is parsed as the   *)
(* temperature, the 5th-from-last is the structure looked up in the valid  *)
(* set, the 4th-from-last the method and the 3rd-from-last the ensemble,   *)
(* however few of them lie below the scan root.                            *)
(***************************************************************************)
C10_FullPathClassification ==
  [][\A d \in tree : (Visits(d) /\ HasPoscar(d)) =>
       LET segs == FullSegments(directory, d.rel)
       IN  IF Len(segs) < 6
             THEN pc' = "walk" /\ calculations' = calculations
           ELSE IF ~Numeric(FromEnd(segs, 1))
             THEN pc' = "aborted" /\ error' = "ValueError"
           ELSE IF FromEnd(segs, 5) \notin valid_cif_files
             THEN pc' = "walk" /\ calculations' = calculations
           ELSE /\ DOMAIN calculations' = DOMAIN calculations \cup {KeyOf(segs)}
                /\ FromEnd(segs, 3) \in Ensembles =>
                     /\ pc' = "walk"
                     /\ \A st \in Statuses :
                          Count(calculations', KeyOf(segs), FromEnd(segs, 3), st) =
                            Count(calculations, KeyOf(segs), FromEnd(segs, 3), st)
                            + Cardinality(WithStatus(d.files, st))
    ]_vars

\* a directory fewer than five levels below the scan root has just been
\* counted, under a structure name that is a segment of the directory
\* argument; under a directory argument of fewer segments its full path
\* would have fewer than 6 segments
C10_Witness ==
  /\ pc = "walk"
  /\ Len(walked) > 0
  /\ Counted(Cur)
  /\ Len(Cur.rel) < 5
  /\ LET segs == FullSegments(directory, Cur.rel)
     IN  /\ FromEnd(segs, 5) \in Range(Split(directory, SEP))
         /\ Count(calculations, KeyOf(segs), FromEnd(segs, 3), "not_started") > 0
  /\ \E top \in Directories :
       /\ Len(Split(top, SEP)) < Len(Split(directory, SEP))
       /\ Len(FullSegments(top, Cur.rel)) < 6

====
